---- MODULE Spec2Model ----
(***************************************************************************)
(* The process-simulation orchestrator (src/aspen/simulation.py,           *)
(* class ProcessSimulation) driving the engine adapter                     *)
(* (src/aspen/interface.py, class AspenPlusInterface) over the external    *)
(* simulation engine.  One action per orchestrator operation; every        *)
(* adapter call the operation makes is part of the action.  The engine is  *)
(* the environment: each call into it either succeeds ("ok") or raises     *)
(* ("err"), chosen nondeterministically per call.                          *)
(***************************************************************************)
EXTENDS Integers, Sequences, FiniteSets, TLC

VARIABLES
    initialized,  \* ProcessSimulation.initialized
    aspen,        \* AspenPlusInterface.aspen: NoSession (None) or a session id
    live,         \* engine sessions created by CreateObject and not yet closed
    nsessions,    \* number of engine sessions created so far
    op,           \* the orchestrator operation that has just returned, or "idle"
    arg,          \* the argument it was called with
    ret,          \* what it returned: "True", "False", "None", or "raised"
    results,      \* second component of run()'s return value
    calls,        \* the adapter calls the last operation issued, in order
    pre,          \* initialized, aspen and live as they were before the last operation
    closedOnce,   \* history: close() has run on an initialized orchestrator
    matOK,        \* history: setup_materials() returned True since the last successful initialize()
    procOK        \* history: build_process() returned True since the last successful initialize()

vars == <<initialized, aspen, live, nsessions, op, arg, ret, results, calls, pre,
          closedOnce, matOK, procOK>>

-----------------------------------------------------------------------------
(* Bounds of the model *)

MaxSessions == 2
MaxMaterials == 2
MaxUnits == 2
MaxConnections == 1

-----------------------------------------------------------------------------
(* Values *)

\* Optional[...]: None is the empty sequence, a set value v is <<v>>.
None == <<>>
Some(v) == <<v>>

\* self.aspen = None
NoSession == 0

\* {} as returned by run() and get_simulation_results()
EmptyDict == <<>>

\* Defaults substituted by setup_materials.  Temperatures are in hundredths
\* of a kelvin (298.15 K), pressures in pascal.
DefaultTemperature == 29815
DefaultPressure == 101325
DefaultAmount == 100

\* Outcome of one call into the engine: it returns, or it raises an Exception.
EngineOutcomes == {"ok", "err"}

\* Outcome of one adapter call as the orchestrator sees it: the engine
\* outcomes above, which the adapter turns into a return value, or an
\* exception leaving the adapter call ("raise").
RaisingOutcomes == EngineOutcomes \cup {"raise"}

\* Status codes of Engine.Run2(): 0 is success.
RunStatusCodes == {0, 1}

\* Raw results the engine can report: none at all, or some records.
EngineResults == {EmptyDict, <<"FEED_1", "PRODUCT", "R1">>}

-----------------------------------------------------------------------------
(* Inputs *)

Names == {"A", "B"}

RawMaterial(n, f, a, t, p) ==
    [name |-> n, chemical_formula |-> f, amount |-> a, temperature |-> t, pressure |-> p]

\* Every optional field in each of its three cases: unset, set to 0, set to
\* a nonzero value; and a second material, of another name.
Materials ==
    {RawMaterial("A", None, None, None, None),
     RawMaterial("A", Some("F"), Some(0), Some(0), Some(0))}
    \cup {RawMaterial(n, Some("F"), Some(50), Some(35000), Some(200000)) : n \in Names}

SeqsUpTo(S, n) == UNION {[1..k -> S] : k \in 0..n}

\* RawMaterialsList: the model's one field, materials.
RawMaterialsLists == {[materials |-> m] : m \in SeqsUpTo(Materials, MaxMaterials)}

Unit(i, t, ps) == [id |-> i, type |-> t, parameters |-> ps]

\* The entries of process_design["units"], a dict: distinct unit ids, in
\* insertion order.  parameters is a list of <<path, value>> pairs.
Units == {Unit("R1", "RStoic", <<<<"TEMP", 35000>>>>), Unit("F1", "Flash2", <<>>)}

UnitSeqs == {u \in SeqsUpTo(Units, MaxUnits) :
                \A i, j \in 1..Len(u) : u[i].id = u[j].id => i = j}

Connections == {[source |-> "R1", destination |-> "F1", stream |-> "S1"]}

ProcessDesigns ==
    {[units |-> u, connections |-> c] :
        u \in UnitSeqs, c \in SeqsUpTo(Connections, MaxConnections)}

Paths == {"out.bkp"}

-----------------------------------------------------------------------------
(* The engine adapter, AspenPlusInterface.  h is self.aspen at the time of  *)
(* the call and o the outcome of the engine calls the method makes.  Every   *)
(* method body is one try/except Exception: an engine call that raises, or   *)
(* the AttributeError of using self.aspen while it is None, becomes the      *)
(* method's failure value.                                                   *)

\* initialize(): cc.CreateObject gives a new session, stored in self.aspen
\* (the store is part of the orchestrator's initialize action below).
aspen_initialize(o) == IF o = "ok" THEN "True" ELSE "False"

\* load_simulation(): one engine call, InitFromArchive2 when the template
\* file exists and InitFromFile2 otherwise.
aspen_load_simulation(h, o) == IF h # NoSession /\ o = "ok" THEN "True" ELSE "False"

aspen_save_simulation(h, o) == IF h # NoSession /\ o = "ok" THEN "True" ELSE "False"

aspen_add_component(h, o) == IF h # NoSession /\ o = "ok" THEN "True" ELSE "False"

aspen_set_property_method(h, o) == IF h # NoSession /\ o = "ok" THEN "True" ELSE "False"

aspen_add_stream(h, o) == IF h # NoSession /\ o = "ok" THEN "True" ELSE "False"

aspen_add_unit_operation(h, o) == IF h # NoSession /\ o = "ok" THEN "True" ELSE "False"

\* connect_blocks only logs: it makes no engine call and cannot fail.
aspen_connect_blocks(h, o) == "True"

\* Engine.Run2() returns a status code; only 0 is success.
aspen_run_simulation(h, o, status) ==
    IF h # NoSession /\ o = "ok" /\ status = 0 THEN "True" ELSE "False"

\* The results mapping on success, {} when anything raised while reading.
aspen_get_simulation_results(h, o, r) ==
    IF h # NoSession /\ o = "ok" THEN r ELSE EmptyDict

\* close(): Close() is called only on a session; when it raises, the handler
\* logs and self.aspen keeps the session, which stays open.
aspen_close_handle(h, o) == IF h # NoSession /\ o = "ok" THEN NoSession ELSE h

aspen_close_live(h, l, o) == IF h # NoSession /\ o = "ok" THEN l \ {h} ELSE l

\* What the caller of an adapter method gets: the method's return value r,
\* or an exception when one leaves the method.
AdapterCall(r, o) == IF o = "raise" THEN "raised" ELSE r

AdapterReturn(fn, h, o) ==
    AdapterCall(
        CASE fn = "add_component" -> aspen_add_component(h, o)
          [] fn = "set_property_method" -> aspen_set_property_method(h, o)
          [] fn = "add_stream" -> aspen_add_stream(h, o)
          [] fn = "add_unit_operation" -> aspen_add_unit_operation(h, o)
          [] fn = "connect_blocks" -> aspen_connect_blocks(h, o),
        o)

-----------------------------------------------------------------------------
(* The orchestrator, ProcessSimulation *)

\* One adapter call as issued: the method, its arguments, the outcome o of
\* its engine calls and what the call gave back to the orchestrator.
Call(fn, a1, a2, o, r) == [fn |-> fn, a1 |-> a1, a2 |-> a2, engine |-> o, ret |-> r]

\* Python's "x or d" on an Optional[float]: d when x is None or 0.
PyOr(x, d) == IF x = None \/ x[1] = 0 THEN d ELSE x[1]

\* f"FEED_{i+1}" for the 0-based index i of enumerate()
stream_id(i) == "FEED_" \o ToString(i + 1)

stream_data(material) ==
    [temperature |-> PyOr(material.temperature, DefaultTemperature),
     pressure |-> PyOr(material.pressure, DefaultPressure),
     composition |-> (material.name :> PyOr(material.amount, DefaultAmount))]

\* A setup that selects the property method before adding the components.
SetupPlan_method_first(materials) ==
    <<<<"set_property_method", "NRTL", None>>>>
    \o [i \in 1..Len(materials) |->
        <<"add_component", materials[i].name, materials[i].chemical_formula>>]
    \o [i \in 1..Len(materials) |->
        <<"add_stream", stream_id(i - 1), <<stream_data(materials[i])>>>>]

\* The adapter calls of setup_materials, in program order, as
\* <<method, first argument, further arguments>>.
SetupPlan(materials) ==
    [i \in 1..Len(materials) |->
        <<"add_component", materials[i].name, materials[i].chemical_formula>>]
    \o <<<<"set_property_method", "NRTL", None>>>>
    \o [i \in 1..Len(materials) |->
        <<"add_stream", stream_id(i - 1), <<stream_data(materials[i])>>>>]

\* The adapter calls of build_process, in program order.
BuildPlan(design) ==
    [i \in 1..Len(design.units) |->
        <<"add_unit_operation", design.units[i].id,
          <<design.units[i].type, design.units[i].parameters>>>>]
    \o [i \in 1..Len(design.connections) |->
        <<"connect_blocks", design.connections[i].stream,
          <<design.connections[i].source, design.connections[i].destination>>>>]

\* The outcomes of the calls of a plan of n calls run inside try, each drawn
\* from O: one outcome per call issued.  An exception ends the try block, so
\* a call that raises is the last one issued.
PlanOutcomes(n, O) ==
    [1..n -> O \ {"raise"}]
    \cup {Append(o, "raise") : o \in UNION {[1..k -> O \ {"raise"}] : k \in 0..(n - 1)},
                               x \in O \cap {"raise"}}

\* Running a plan inside try: every call is issued and its return value
\* dropped.
RunPlan(plan, h, o) ==
    LET p == plan
    IN  [i \in 1..Len(o) |->
            Call(p[i][1], p[i][2], p[i][3], o[i], AdapterReturn(p[i][1], h, o[i]))]

Raised(log) == \E i \in 1..Len(log) : log[i].ret = "raised"

\* Return value of the try/except of setup_materials and build_process.
PhaseReturn(log) == IF Raised(log) THEN "False" ELSE "True"

\* What the caller observes of an operation.  Calls are sequential: an
\* operation starts (op = "idle") only after the caller has taken the
\* previous result.
Observe(o, a, r, res, log) ==
    /\ op' = o
    /\ arg' = a
    /\ ret' = r
    /\ results' = res
    /\ calls' = log
    /\ pre' = [initialized |-> initialized, aspen |-> aspen, live |-> live]

\* "if not self.initialized: ... return False" of setup_materials,
\* build_process, run and save.
NotInitialized(o, a, r) ==
    /\ op = "idle"
    /\ ~initialized
    /\ Observe(o, a, r, EmptyDict, <<>>)
    /\ UNCHANGED <<initialized, aspen, live, nsessions, closedOnce, matOK, procOK>>

Init ==
    /\ initialized = FALSE
    /\ aspen = NoSession
    /\ live = {}
    /\ nsessions = 0
    /\ op = "idle"
    /\ arg = None
    /\ ret = "None"
    /\ results = EmptyDict
    /\ calls = <<>>
    /\ pre = [initialized |-> FALSE, aspen |-> NoSession, live |-> {}]
    /\ closedOnce = FALSE
    /\ matOK = FALSE
    /\ procOK = FALSE

\* o1 is the outcome of the adapter's initialize(), o2 of its
\* load_simulation().  Session ids are handed out in order of creation; the
\* session self.aspen held before is dropped without Close().
initialize(o1, o2) ==
    LET r1 == AdapterCall(aspen_initialize(o1), o1)
        created == o1 = "ok"
        h == IF created THEN nsessions + 1 ELSE aspen
        r2 == AdapterCall(aspen_load_simulation(h, o2), o2)
        log == IF r1 = "True"
               THEN <<Call("initialize", "", None, o1, r1),
                      Call("load_simulation", "", None, o2, r2)>>
               ELSE <<Call("initialize", "", None, o1, r1)>>
        success == r1 = "True" /\ r2 = "True"
    IN  /\ op = "idle"
        /\ created => nsessions < MaxSessions
        /\ aspen' = h
        /\ live' = IF created THEN live \cup {h} ELSE live
        /\ nsessions' = IF created THEN nsessions + 1 ELSE nsessions
        /\ initialized' = IF success THEN TRUE ELSE initialized
        /\ matOK' = IF success THEN FALSE ELSE matOK
        /\ procOK' = IF success THEN FALSE ELSE procOK
        /\ UNCHANGED closedOnce
        /\ Observe("initialize", None,
                   IF Raised(log) THEN "raised" ELSE IF success THEN "True" ELSE "False",
                   EmptyDict, log)

setup_materials(O) ==
    \/ \E materials \in RawMaterialsLists :
          NotInitialized("setup_materials", materials, "False")
    \/ /\ op = "idle"
       /\ initialized
       /\ \E materials \in RawMaterialsLists :
          \E o \in PlanOutcomes(2 * Len(materials.materials) + 1, O) :
            LET log == RunPlan(SetupPlan(materials.materials), aspen, o)
            IN  /\ Observe("setup_materials", materials, PhaseReturn(log), EmptyDict, log)
                /\ matOK' = (matOK \/ PhaseReturn(log) = "True")
       /\ UNCHANGED <<initialized, aspen, live, nsessions, closedOnce, procOK>>

build_process(O) ==
    \/ \E process_design \in ProcessDesigns :
          NotInitialized("build_process", process_design, "False")
    \/ /\ op = "idle"
       /\ initialized
       /\ \E process_design \in ProcessDesigns :
          \E o \in PlanOutcomes(Len(process_design.units)
                                  + Len(process_design.connections), O) :
            LET log == RunPlan(BuildPlan(process_design), aspen, o)
            IN  /\ Observe("build_process", process_design, PhaseReturn(log), EmptyDict, log)
                /\ procOK' = (procOK \/ PhaseReturn(log) = "True")
       /\ UNCHANGED <<initialized, aspen, live, nsessions, closedOnce, matOK>>

\* run() without its "if not self.initialized" check.
run_unchecked(o1, status, o2, r) ==
    /\ op = "idle"
    /\ LET r1 == AdapterCall(aspen_run_simulation(aspen, o1, status), o1)
           c1 == Call("run_simulation", "", None, o1, r1)
           c2 == Call("get_simulation_results", "", None, o2, "dict")
       IN  IF r1 = "True"
           THEN Observe("run", None, "True", aspen_get_simulation_results(aspen, o2, r),
                        <<c1, c2>>)
           ELSE Observe("run", None, "False", EmptyDict, <<c1>>)
    /\ UNCHANGED <<initialized, aspen, live, nsessions, closedOnce, matOK, procOK>>

run(o1, status, o2, r) ==
    \/ NotInitialized("run", None, "False")
    \/ /\ op = "idle"
       /\ initialized
       /\ LET r1 == AdapterCall(aspen_run_simulation(aspen, o1, status), o1)
              fetched == aspen_get_simulation_results(aspen, o2, r)
              c1 == Call("run_simulation", "", None, o1, r1)
              c2 == Call("get_simulation_results", "", None, o2,
                         IF o2 = "raise" THEN "raised" ELSE "dict")
          IN  IF r1 = "True"
              THEN IF o2 = "raise"
                   THEN Observe("run", None, "False", EmptyDict, <<c1, c2>>)
                   ELSE Observe("run", None, "True", fetched, <<c1, c2>>)
              ELSE Observe("run", None, "False", EmptyDict, <<c1>>)
       /\ UNCHANGED <<initialized, aspen, live, nsessions, closedOnce, matOK, procOK>>

\* save() without its "if not self.initialized" check.
save_unchecked(file_path, o) ==
    /\ op = "idle"
    /\ LET r1 == AdapterCall(aspen_save_simulation(aspen, o), o)
       IN  Observe("save", file_path, IF r1 = "raised" THEN "False" ELSE r1, EmptyDict,
                   <<Call("save_simulation", file_path, None, o, r1)>>)
    /\ UNCHANGED <<initialized, aspen, live, nsessions, closedOnce, matOK, procOK>>

save(file_path, o) ==
    \/ NotInitialized("save", file_path, "False")
    \/ /\ op = "idle"
       /\ initialized
       /\ LET r1 == AdapterCall(aspen_save_simulation(aspen, o), o)
          IN  Observe("save", file_path, IF r1 = "raised" THEN "False" ELSE r1, EmptyDict,
                      <<Call("save_simulation", file_path, None, o, r1)>>)
       /\ UNCHANGED <<initialized, aspen, live, nsessions, closedOnce, matOK, procOK>>

\* close() clearing the flag only when the engine closed without error.
close_flag_on_success(o) ==
    /\ op = "idle"
    /\ Observe("close", None, "None", EmptyDict,
               IF initialized THEN <<Call("close", "", None, o, "None")>> ELSE <<>>)
    /\ aspen' = IF initialized THEN aspen_close_handle(aspen, o) ELSE aspen
    /\ live' = IF initialized THEN aspen_close_live(aspen, live, o) ELSE live
    /\ initialized' = (initialized /\ o # "ok")
    /\ closedOnce' = (closedOnce \/ initialized)
    /\ UNCHANGED <<nsessions, matOK, procOK>>

close(o) ==
    \/ /\ op = "idle"
       /\ ~initialized
       /\ Observe("close", None, "None", EmptyDict, <<>>)
       /\ UNCHANGED <<initialized, aspen, live, nsessions, closedOnce, matOK, procOK>>
    \/ /\ op = "idle"
       /\ initialized
       /\ IF o = "raise"
          THEN /\ Observe("close", None, "raised", EmptyDict,
                          <<Call("close", "", None, o, "raised")>>)
               /\ UNCHANGED <<initialized, aspen, live, closedOnce>>
          ELSE /\ Observe("close", None, "None", EmptyDict,
                          <<Call("close", "", None, o, "None")>>)
               /\ aspen' = aspen_close_handle(aspen, o)
               /\ live' = aspen_close_live(aspen, live, o)
               /\ initialized' = FALSE
               /\ closedOnce' = TRUE
       /\ UNCHANGED <<nsessions, matOK, procOK>>

\* The caller takes the result of the operation that returned and goes on.
Return ==
    /\ op # "idle"
    /\ op' = "idle"
    /\ arg' = None
    /\ ret' = "None"
    /\ results' = EmptyDict
    /\ calls' = <<>>
    /\ pre' = [initialized |-> initialized, aspen |-> aspen, live |-> live]
    /\ UNCHANGED <<initialized, aspen, live, nsessions, closedOnce, matOK, procOK>>

\* Any sequence of orchestrator calls, each adapter call with an outcome of O.
NextOver(O) ==
    \/ Return
    \/ \E o1, o2 \in O : initialize(o1, o2)
    \/ setup_materials(O)
    \/ build_process(O)
    \/ \E o1, o2 \in O, status \in RunStatusCodes, r \in EngineResults :
          run(o1, status, o2, r)
    \/ \E file_path \in Paths, o \in O : save(file_path, o)
    \/ \E o \in O : close(o)

\* The repository's adapter: no exception leaves an adapter call.
Next == NextOver(EngineOutcomes)

Spec == Init /\ [][Next]_vars

\* The orchestrator over an adapter whose calls may also raise.
NextRaising == NextOver(RaisingOutcomes)

SpecRaising == Init /\ [][NextRaising]_vars

-----------------------------------------------------------------------------
(* Numbers and comparisons of the parser and the specifications *)

\* Inputs of the parser layer: largest number of criteria a specification
\* populates, of stream records in a results mapping, of components in a
\* composition and of specifications in a list.
MaxCriteria == 2
MaxStreams == 2
MaxComponents == 2
MaxSpecs == 2

RECURSIVE GCD(_, _)
GCD(a, b) == IF b = 0 THEN a ELSE GCD(b, a % b)

Abs(n) == IF n < 0 THEN 0 - n ELSE n

\* A float, held exactly as the fraction n/d in lowest terms, d > 0.
Q(n, d) ==
    LET g == GCD(Abs(n), d)
    IN  IF n = 0 THEN <<0, 1>> ELSE <<n \div g, d \div g>>

Le(x, y) == x[1] * y[2] <= y[1] * x[2]

Lt(x, y) == x[1] * y[2] < y[1] * x[2]

\* Python's x <= y on Optional[float]: TypeError when either side is None.
PyLe(x, y) ==
    IF x = None \/ y = None THEN "raised"
    ELSE IF Le(x[1], y[1]) THEN "True" ELSE "False"

PyGe(x, y) == PyLe(y, x)

\* Python's chained lo <= x <= hi: the second comparison is made only when
\* the first is true.
PyChain(lo, x, hi) ==
    LET first == PyLe(lo, x)
    IN  IF first = "True" THEN PyLe(x, hi) ELSE first

\* dict.get(k): None when the key is absent.
Get(d, k) == IF k \in DOMAIN d THEN d[k] ELSE None

\* A dict with string keys and no entry.
NoEntries == [k \in {} |-> None]

\* The dicts with at most the key k, its value drawn from V.
Field(k, V) == {NoEntries} \cup {k :> v : v \in V}

-----------------------------------------------------------------------------
(* ProductSpecification *)

\* A {min, max} mapping: any of the two keys may be absent.
Ranges(lo, hi) ==
    {a @@ b : a \in Field("min", {Some(lo)}), b \in Field("max", {Some(hi)})}

\* Values of a custom property (properties is Dict[str, Any]): a scalar v,
\* or a mapping d whose bounds may be absent or None.
Scalar(x) == [isdict |-> FALSE, d |-> NoEntries, v |-> x]

Mapping(m) == [isdict |-> TRUE, d |-> m, v |-> None]

PropertyValues ==
    {Scalar(Some(Q(900, 1)))}
    \cup {Mapping(r) : r \in Ranges(Q(800, 1), Q(1000, 1))}
    \cup {Mapping("min" :> Some(Q(800, 1)) @@ "max" :> None)}

ProductSpecification(n, p, y, s, t, pr, props) ==
    [name |-> n, purity |-> p, yield_requirement |-> y, state |-> s,
     temperature_range |-> t, pressure_range |-> pr, properties |-> props]

\* The criterion fields a specification populates.
Populated(spec) ==
    {f \in {"purity", "yield_requirement", "state", "temperature_range",
            "pressure_range"} : spec[f] # None}
    \cup DOMAIN spec.properties

ProductSpecifications ==
    {spec \in
        {ProductSpecification("A", p, y, s, t, pr, props) :
            p \in {None, Some(Q(9, 10))},
            y \in {None, Some(Q(1, 2))},
            s \in {None, Some("gas"), Some("liquid")},
            t \in {None} \cup {Some(r) : r \in Ranges(Q(300, 1), Q(400, 1))},
            pr \in {None, Some("min" :> Some(Q(100, 1))),
                    Some("max" :> Some(Q(200, 1)))},
            props \in Field("density", PropertyValues)} :
        Cardinality(Populated(spec)) <= MaxCriteria}

\* product_data: any field may be missing; the temperature may be present
\* with value None, as extract_product_properties leaves it.
ProductData ==
    {a @@ b @@ c @@ d @@ e @@ f :
        a \in Field("purity", {Some(Q(1, 2)), Some(Q(1, 1))}),
        b \in Field("yield", {Some(Q(1, 4))}),
        c \in Field("state", {"vapor", "liquid"}),
        d \in Field("temperature", {None, Some(Q(250, 1)), Some(Q(350, 1))}),
        e \in Field("pressure", {Some(Q(150, 1))}),
        f \in Field("density", {Some(Q(700, 1)), Some(Q(900, 1))})}

\* A range check that reports a missing field as a failed criterion.
range_criterion_missing_fails(range, product_data, field) ==
    IF range = None THEN "omit"
    ELSE IF field \notin DOMAIN product_data THEN "False"
    ELSE LET value == product_data[field]
             min == Get(range[1], "min")
             max == Get(range[1], "max")
         IN  IF min # None /\ max # None THEN PyChain(min, value, max)
             ELSE IF min # None THEN PyGe(value, min)
             ELSE IF max # None THEN PyLe(value, max)
             ELSE "omit"

\* "if min is not None and max is not None ... elif ... elif ..." on
\* temperature_range and on pressure_range: "omit" when no entry is written.
range_criterion(range, product_data, field) ==
    IF range = None \/ field \notin DOMAIN product_data THEN "omit"
    ELSE LET value == product_data[field]
             min == Get(range[1], "min")
             max == Get(range[1], "max")
         IN  IF min # None /\ max # None THEN PyChain(min, value, max)
             ELSE IF min # None THEN PyGe(value, min)
             ELSE IF max # None THEN PyLe(value, max)
             ELSE "omit"

\* One pass of the loop over self.properties.
custom_criterion(prop_value, product_data, prop_name) ==
    IF prop_value.isdict /\ "min" \in DOMAIN prop_value.d
                         /\ "max" \in DOMAIN prop_value.d
    THEN IF prop_name \in DOMAIN product_data
         THEN PyChain(prop_value.d["min"], product_data[prop_name],
                      prop_value.d["max"])
         ELSE "omit"
    ELSE IF prop_name \in DOMAIN product_data
         THEN IF ~prop_value.isdict /\ product_data[prop_name] = prop_value.v
              THEN "True" ELSE "False"
         ELSE "omit"

\* The entry is_satisfied_by writes under key c: "omit" when it writes none.
criterion(spec, product_data, c) ==
    IF c \in DOMAIN spec.properties
        /\ custom_criterion(spec.properties[c], product_data, c) # "omit"
    THEN custom_criterion(spec.properties[c], product_data, c)
    ELSE CASE c = "purity" ->
                IF spec.purity # None /\ "purity" \in DOMAIN product_data
                THEN PyGe(product_data["purity"], spec.purity) ELSE "omit"
           [] c = "yield" ->
                IF spec.yield_requirement # None /\ "yield" \in DOMAIN product_data
                THEN PyGe(product_data["yield"], spec.yield_requirement)
                ELSE "omit"
           [] c = "state" ->
                IF spec.state # None /\ "state" \in DOMAIN product_data
                THEN IF product_data["state"] = spec.state[1]
                     THEN "True" ELSE "False"
                ELSE "omit"
           [] c = "temperature" ->
                range_criterion(spec.temperature_range, product_data, "temperature")
           [] c = "pressure" ->
                range_criterion(spec.pressure_range, product_data, "pressure")
           [] OTHER -> "omit"

Criteria(spec) ==
    {"purity", "yield", "state", "temperature", "pressure"}
    \cup DOMAIN spec.properties

\* What a call gives its caller when an exception leaves it; a call that
\* returns gives [raised |-> FALSE] and the value it returns, under the name
\* the value has in the source.
Exception == [raised |-> TRUE]

is_satisfied_by(spec, product_data) ==
    LET verdict == [c \in Criteria(spec) |-> criterion(spec, product_data, c)]
    IN  IF \E c \in Criteria(spec) : verdict[c] = "raised" THEN Exception
        ELSE [raised |-> FALSE,
              results |-> [c \in {k \in Criteria(spec) : verdict[k] # "omit"}
                              |-> verdict[c] = "True"]]

\* A Python bool, written as the orchestrator's return values are.
PyBool(b) == IF b THEN "True" ELSE "False"

\* A check that passes when any criterion passes.
all_specifications_met_any(spec, product_data) ==
    LET res == is_satisfied_by(spec, product_data)
    IN  IF res.raised THEN Exception
        ELSE [raised |-> FALSE,
              met |-> PyBool(\E c \in DOMAIN res.results : res.results[c])]

all_specifications_met(spec, product_data) ==
    LET res == is_satisfied_by(spec, product_data)
    IN  IF res.raised THEN Exception
        ELSE [raised |-> FALSE,
              met |-> PyBool(\A c \in DOMAIN res.results : res.results[c])]

-----------------------------------------------------------------------------
(* SimulationResultParser *)

\* A Python dict whose iteration order matters is the sequence of its
\* <<key, value>> items in insertion order.
Has(dict, k) == \E i \in 1..Len(dict) : dict[i][1] = k

Lookup(dict, k) == dict[CHOOSE i \in 1..Len(dict) : dict[i][1] = k][2]

\* dict[k] = v: a key already present keeps its place.
Put(dict, k, v) ==
    IF Has(dict, k)
    THEN [i \in 1..Len(dict) |-> IF dict[i][1] = k THEN <<k, v>> ELSE dict[i]]
    ELSE Append(dict, <<k, v>>)

\* The dicts of exactly n items with different keys of K and values of V.
DictsOf(n, K, V) ==
    {d \in [1..n -> K \X V] : \A i, j \in 1..n : d[i][1] = d[j][1] => i = j}

\* A value of the results mapping: a dict d, or something that is no dict.
Dict(d) == [isdict |-> TRUE, d |-> d]

NotADict == [isdict |-> FALSE, d |-> NoEntries]

Components == {"A", "B", "C"}

Flows == {0, 20, 80}

\* composition: component -> mass flow, of at most MaxComponents components.
Compositions ==
    UNION {DictsOf(n, Components, Flows) : n \in 0..MaxComponents}

VaporFractions == {Q(0, 1), Q(1, 100), Q(1, 2), Q(99, 100), Q(1, 1)}

\* Stream records: any of the four fields may be missing.
StreamRecords ==
    {t @@ p @@ v @@ c :
        t \in Field("temperature", {Some(Q(350, 1))}),
        p \in Field("pressure", {Some(Q(150, 1))}),
        v \in Field("vapor_fraction", {Some(x) : x \in VaporFractions}),
        c \in Field("composition", Compositions)}

\* A few stream records, for results of several streams.
FewStreamRecords ==
    {t @@ c :
        t \in Field("temperature", {Some(Q(350, 1))}),
        c \in {"composition" :> x :
                  x \in {<<<<"A", 80>>, <<"B", 20>>>>, <<<<"A", 80>>>>,
                         <<<<"B", 80>>>>, <<<<"A", 0>>>>}}}

StreamIds == {"P1", "P2"}

\* Results handed to extract_product_properties: one entry of any shape, or
\* up to MaxStreams stream records.
StreamResults ==
    DictsOf(1, StreamIds, {Dict(d) : d \in StreamRecords} \cup {NotADict})
    \cup UNION {DictsOf(n, StreamIds, {Dict(d) : d \in FewStreamRecords}) :
                   n \in 0..MaxStreams}

RECURSIVE SumFlows(_)
SumFlows(composition) ==
    IF composition = <<>> THEN 0
    ELSE composition[1][2] + SumFlows(Tail(composition))

\* max(items, key=lambda x: x[1]) keeping the last of equal maxima.
PyMax_last(items) ==
    items[CHOOSE m \in 1..Len(items) :
             /\ \A k \in 1..Len(items) : Le(items[k][2], items[m][2])
             /\ \A k \in (m + 1)..Len(items) : Lt(items[k][2], items[m][2])]

\* max(items, key=lambda x: x[1]): the first of equal maxima.
RECURSIVE PyMaxFrom(_, _, _)
PyMaxFrom(items, i, best) ==
    IF i > Len(items) THEN best
    ELSE PyMaxFrom(items, i + 1,
                   IF Lt(best[2], items[i][2]) THEN items[i] ELSE best)

PyMax(items) == PyMaxFrom(items, 2, items[1])

\* A classification that counts the thresholds themselves as vapor and liquid.
state_of_inclusive(record) ==
    LET vf == IF "vapor_fraction" \in DOMAIN record
              THEN record["vapor_fraction"][1] ELSE Q(0, 1)
    IN  IF Le(Q(99, 100), vf) THEN "vapor"
        ELSE IF Le(vf, Q(1, 100)) THEN "liquid"
        ELSE "mixed"

\* "vapor" if vapor_fraction > 0.99 else "liquid" if < 0.01 else "mixed",
\* a missing vapor_fraction counting as 0.
state_of(record) ==
    LET vf == IF "vapor_fraction" \in DOMAIN record
              THEN record["vapor_fraction"][1] ELSE Q(0, 1)
    IN  IF Lt(Q(99, 100), vf) THEN "vapor"
        ELSE IF Lt(vf, Q(1, 100)) THEN "liquid"
        ELSE "mixed"

\* {comp: flow/total_flow for comp, flow in composition.items() if total_flow > 0}
mass_fractions(composition) ==
    LET total_flow == SumFlows(composition)
    IN  IF total_flow > 0
        THEN [i \in 1..Len(composition) |->
                 <<composition[i][1], Q(composition[i][2], total_flow)>>]
        ELSE <<>>

\* The properties entry of one stream.
properties_of(record) ==
    LET basic == "temperature" :> Get(record, "temperature")
                 @@ "pressure" :> Get(record, "pressure")
                 @@ "state" :> state_of(record)
        composition == IF "composition" \in DOMAIN record
                       THEN record["composition"] ELSE <<>>
        fractions == mass_fractions(composition)
        main_component == IF fractions # <<>>
                          THEN <<Some(PyMax(fractions)[1]), PyMax(fractions)[2]>>
                          ELSE <<None, Q(0, 1)>>
    IN  IF composition # <<>>
        THEN basic @@ "composition" :> fractions
                   @@ "main_component" :> main_component[1]
                   @@ "purity" :> Some(main_component[2])
        ELSE basic

RECURSIVE extract_loop(_, _, _)
extract_loop(simulation_results, product_streams, product_properties) ==
    IF product_streams = <<>> THEN product_properties
    ELSE LET sid == Head(product_streams)
         IN  extract_loop(simulation_results, Tail(product_streams),
                 IF Has(simulation_results, sid)
                 THEN Put(product_properties, sid,
                          properties_of(Lookup(simulation_results, sid).d))
                 ELSE product_properties)

\* stream_data.get(...) on a value that is no dict raises AttributeError.
extract_product_properties(simulation_results, product_streams) ==
    IF \E i \in 1..Len(product_streams) :
          /\ Has(simulation_results, product_streams[i])
          /\ ~Lookup(simulation_results, product_streams[i]).isdict
    THEN Exception
    ELSE [raised |-> FALSE,
          product_properties |-> extract_loop(simulation_results, product_streams, <<>>)]

\* Specifications by product name, for lists of several specifications.
NamedSpecifications ==
    {ProductSpecification(n, c[1], None, None, c[2], None, NoEntries) :
        n \in {"A", "B"},
        c \in {<<Some(Q(9, 10)), None>>, <<Some(Q(1, 2)), None>>,
               <<None, Some("min" :> Some(Q(300, 1)))>>}}

ProductSpecificationsLists ==
    {[specifications |-> l] : l \in SeqsUpTo(NamedSpecifications, MaxSpecs)}

\* A lookup that keeps the first specification of a name.
spec_dict_first(specifications, name) ==
    specifications[CHOOSE i \in 1..Len(specifications) :
                      /\ specifications[i].name = name
                      /\ \A j \in 1..(i - 1) : specifications[j].name # name]

\* {spec.name: spec for spec in specifications.specifications}[name]: a
\* later specification of the same name replaces an earlier one.
spec_dict(specifications, name) ==
    specifications[CHOOSE i \in 1..Len(specifications) :
                      /\ specifications[i].name = name
                      /\ \A j \in (i + 1)..Len(specifications) :
                            specifications[j].name # name]

\* "if product_name and product_name in spec_dict"
matched(properties, specifications) ==
    /\ Get(properties, "main_component") # None
    /\ \E i \in 1..Len(specifications) :
          specifications[i].name = properties["main_component"][1]

RECURSIVE check_loop(_, _, _)
check_loop(product_properties, specifications, specification_results) ==
    IF product_properties = <<>> THEN specification_results
    ELSE LET properties == Head(product_properties)[2]
         IN  check_loop(Tail(product_properties), specifications,
                 IF matched(properties, specifications)
                 THEN LET product_name == properties["main_component"][1]
                          spec == spec_dict(specifications, product_name)
                      IN  Put(specification_results, product_name,
                              is_satisfied_by(spec, properties).results)
                 ELSE specification_results)

\* An exception of is_satisfied_by leaves check_specifications.
check_specifications(product_properties, specifications) ==
    IF \E i \in 1..Len(product_properties) :
          /\ matched(product_properties[i][2], specifications.specifications)
          /\ is_satisfied_by(
                spec_dict(specifications.specifications,
                          product_properties[i][2]["main_component"][1]),
                product_properties[i][2]).raised
    THEN Exception
    ELSE [raised |-> FALSE,
          specification_results |->
              check_loop(product_properties, specifications.specifications, <<>>)]

\* The keys of a dict, in iteration order.
Keys(dict) == [i \in 1..Len(dict) |-> dict[i][1]]

\* The characters of the stream and block ids and of the prefixes they
\* are tested for.
Chars ==
    "FEED" :> <<"F", "E", "E", "D">>
    @@ "PRODUCT" :> <<"P", "R", "O", "D", "U", "C", "T">>
    @@ "FEED_1" :> <<"F", "E", "E", "D", "_", "1">>
    @@ "FEED_2" :> <<"F", "E", "E", "D", "_", "2">>
    @@ "XFEED" :> <<"X", "F", "E", "E", "D">>
    @@ "X" :> <<"X">>
    @@ "ok" :> <<"o", "k">>
    @@ "OK" :> <<"O", "K">>
    @@ "Ok" :> <<"O", "k">>
    @@ "Error" :> <<"E", "r", "r", "o", "r">>
    @@ "Unknown" :> <<"U", "n", "k", "n", "o", "w", "n">>
    @@ "" :> <<>>

\* A prefix test that accepts the prefix anywhere in the id.
startswith_anywhere(s, prefix) ==
    \E k \in 1..Len(Chars[s]) :
        /\ k + Len(Chars[prefix]) - 1 <= Len(Chars[s])
        /\ SubSeq(Chars[s], k, k + Len(Chars[prefix]) - 1) = Chars[prefix]

\* s.startswith(prefix)
startswith(s, prefix) ==
    /\ Len(Chars[prefix]) <= Len(Chars[s])
    /\ SubSeq(Chars[s], 1, Len(Chars[prefix])) = Chars[prefix]

BalanceIds == {"FEED_1", "FEED_2", "XFEED", "X"}

\* Entries of the results handed to check_mass_balance: streams with a
\* composition, a block record without one, and a value that is no dict.
BalanceEntries ==
    {Dict("composition" :> c) :
        c \in {<<>>, <<<<"A", 0>>>>, <<<<"A", 90>>>>, <<<<"A", 100>>>>,
               <<<<"B", 100>>>>, <<<<"A", 100>>, <<"B", 90>>>>,
               <<<<"B", 0>>, <<"A", 90>>>>}}
    \cup {Dict("type" :> "Reactor"), NotADict}

\* "for comp, flow in composition.items()" adding to one side of the balance.
RECURSIVE add_flows(_, _, _)
add_flows(component_balance, composition, side) ==
    IF composition = <<>> THEN component_balance
    ELSE LET comp == composition[1][1]
             flow == composition[1][2]
             known == IF Has(component_balance, comp)
                      THEN component_balance
                      ELSE Put(component_balance, comp, [input |-> 0, output |-> 0])
             flows == Lookup(known, comp)
         IN  add_flows(Put(known, comp, [flows EXCEPT ![side] = @ + flow]),
                       Tail(composition), side)

\* "for stream_id in input_streams" and "for stream_id in output_streams"
RECURSIVE sum_streams(_, _, _)
sum_streams(component_balance, streams, side) ==
    IF streams = <<>> THEN component_balance
    ELSE sum_streams(add_flows(component_balance,
                               Head(streams)[2].d["composition"], side),
                     Tail(streams), side)

\* "if flows['input'] > 0: mass_balance_errors[comp] = (out - in) / in"
RECURSIVE balance_errors(_)
balance_errors(component_balance) ==
    IF component_balance = <<>> THEN <<>>
    ELSE LET comp == Head(component_balance)[1]
             flows == Head(component_balance)[2]
         IN  (IF flows.input > 0
              THEN <<<<comp, Q(flows.output - flows.input, flows.input)>>>>
              ELSE <<>>)
             \o balance_errors(Tail(component_balance))

check_mass_balance(simulation_results) ==
    LET streams == SelectSeq(simulation_results,
                             LAMBDA e : e[2].isdict /\ "composition" \in DOMAIN e[2].d)
        input_streams == SelectSeq(streams, LAMBDA e : startswith(e[1], "FEED"))
        output_streams ==
            SelectSeq(streams,
                      LAMBDA e : \/ startswith(e[1], "PRODUCT")
                                 \/ ~Has(input_streams, e[1]))
    IN  [raised |-> FALSE,
         mass_balance_errors |->
             balance_errors(sum_streams(sum_streams(<<>>, input_streams, "input"),
                                        output_streams, "output"))]

\* str.lower(), character by character.
lower(chars) ==
    [i \in 1..Len(chars) |->
        CASE chars[i] = "O" -> "o"
          [] chars[i] = "K" -> "k"
          [] chars[i] = "E" -> "e"
          [] chars[i] = "U" -> "u"
          [] OTHER -> chars[i]]

BlockIds == {"R1", "R2", "R3"}

Statuses == {"ok", "OK", "Ok", "Error", "Unknown", ""}

\* Entries of the results handed to analyze_simulation_errors: blocks with
\* and without a status, a record without type, and a value that is no dict.
BlockEntries ==
    {Dict("type" :> "Reactor" @@ st) : st \in Field("status", Statuses)}
    \cup {Dict("status" :> "Error"), NotADict}

\* f"Block {block_id} has status: {status}"
Message(block_id, status) == [block_id |-> block_id, status |-> status]

RECURSIVE analyze_loop(_)
analyze_loop(simulation_results) ==
    IF simulation_results = <<>> THEN <<>>
    ELSE LET block_id == Head(simulation_results)[1]
             block_data == Head(simulation_results)[2]
             status == IF "status" \in DOMAIN block_data.d
                       THEN Some(block_data.d["status"]) ELSE None
         IN  (IF /\ block_data.isdict
                 /\ "type" \in DOMAIN block_data.d
                 /\ status # None
                 /\ Chars[status[1]] # <<>>
                 /\ lower(Chars[status[1]]) # Chars["ok"]
              THEN <<Message(block_id, status[1])>>
              ELSE <<>>)
             \o analyze_loop(Tail(simulation_results))

analyze_simulation_errors(simulation_results) ==
    [raised |-> FALSE, errors |-> analyze_loop(simulation_results)]

-----------------------------------------------------------------------------
(* Calls into the parser and the specifications *)

\* A call of a function of the parser layer by a caller that holds no
\* operation in progress; the orchestrator is not involved.
ParserCall(o, a, r) ==
    /\ op' = o
    /\ arg' = a
    /\ ret' = r
    /\ UNCHANGED <<initialized, aspen, live, nsessions, results, calls, pre,
                   closedOnce, matOK, procOK>>

Call_is_satisfied_by ==
    /\ op = "idle"
    /\ \E spec \in ProductSpecifications, product_data \in ProductData :
          ParserCall("is_satisfied_by",
                     [spec |-> spec, product_data |-> product_data],
                     is_satisfied_by(spec, product_data))

Call_all_specifications_met ==
    /\ op = "idle"
    /\ \E spec \in ProductSpecifications, product_data \in ProductData :
          ParserCall("all_specifications_met",
                     [spec |-> spec, product_data |-> product_data],
                     all_specifications_met(spec, product_data))

Call_extract_product_properties ==
    /\ op = "idle"
    /\ \E simulation_results \in StreamResults,
          product_streams \in SeqsUpTo(StreamIds, MaxStreams) :
          ParserCall("extract_product_properties",
                     [results |-> simulation_results,
                      product_streams |-> product_streams],
                     extract_product_properties(simulation_results, product_streams))

\* The results of a run handed to extract_product_properties with all its
\* streams as products, and the properties on to check_specifications.
Call_check_specifications ==
    /\ op = "idle"
    /\ \E simulation_results \in
             UNION {DictsOf(n, StreamIds, {Dict(d) : d \in FewStreamRecords}) :
                       n \in 0..MaxStreams},
          specifications \in ProductSpecificationsLists :
          LET product_properties ==
                  extract_product_properties(
                      simulation_results, Keys(simulation_results)).product_properties
          IN  ParserCall("check_specifications",
                         [results |-> simulation_results,
                          product_properties |-> product_properties,
                          specifications |-> specifications],
                         check_specifications(product_properties, specifications))

Call_check_mass_balance ==
    /\ op = "idle"
    /\ \E simulation_results \in
             UNION {DictsOf(n, BalanceIds, BalanceEntries) : n \in 0..MaxStreams} :
          ParserCall("check_mass_balance", [results |-> simulation_results],
                     check_mass_balance(simulation_results))

Call_analyze_simulation_errors ==
    /\ op = "idle"
    /\ \E simulation_results \in
             UNION {DictsOf(n, BlockIds, BlockEntries) : n \in 0..MaxStreams} :
          ParserCall("analyze_simulation_errors", [results |-> simulation_results],
                     analyze_simulation_errors(simulation_results))

\* state: Optional[Literal["gas", "liquid", "solid"]]
States == {"gas", "liquid", "solid"}

\* Specifications that ask for a state only.
StateSpecifications ==
    {ProductSpecification("A", None, None, Some(s), None, None, NoEntries) :
        s \in States}

\* Stream records of every vapor fraction, with and without a composition.
StateRecords ==
    {v @@ c :
        v \in Field("vapor_fraction", {Some(x) : x \in VaporFractions}),
        c \in Field("composition", {<<<<"A", 80>>>>})}

\* The properties extract_product_properties derives from one stream, handed
\* to is_satisfied_by (as check_specifications does for each stream).
Call_is_satisfied_by_extracted ==
    /\ op = "idle"
    /\ \E record \in StateRecords, spec \in StateSpecifications :
          LET product_properties ==
                  extract_product_properties(<<<<"P1", Dict(record)>>>>,
                                             <<"P1">>).product_properties
          IN  ParserCall("is_satisfied_by",
                         [spec |-> spec,
                          product_data |-> product_properties[1][2],
                          record |-> record],
                         is_satisfied_by(spec, product_properties[1][2]))

NextParser ==
    \/ Return
    \/ Call_is_satisfied_by
    \/ Call_all_specifications_met
    \/ Call_extract_product_properties
    \/ Call_check_specifications
    \/ Call_check_mass_balance
    \/ Call_analyze_simulation_errors
    \/ Call_is_satisfied_by_extracted

SpecParser == Init /\ [][NextParser]_vars

-----------------------------------------------------------------------------
(* Properties *)

GuardedOps == {"setup_materials", "build_process", "run", "save"}

\* The calls of the last operation to adapter method fn, in order.
CallsTo(fn) == SelectSeq(calls, LAMBDA c : c.fn = fn)

\* Optional field x, or d when it is unset (None).
OrDefault(x, d) == IF x = None THEN d ELSE x[1]

\* C1: whenever the orchestrator is not initialized, run() returns
\* (False, {}), setup_materials(), build_process() and save() return False,
\* none of them issues an adapter call, and initialized, the adapter's
\* handle and the engine's sessions are left as they were.
C1_NotInitializedRejected ==
    (op \in GuardedOps /\ ~pre.initialized) =>
        /\ ret = "False"
        /\ results = EmptyDict
        /\ calls = <<>>
        /\ initialized = pre.initialized
        /\ aspen = pre.aspen
        /\ live = pre.live

\* run() rejected on an orchestrator that was closed.
C1_Witness ==
    op = "run" /\ ~pre.initialized /\ closedOnce /\ ret = "False" /\ calls = <<>>

\* C2 (as claimed): once close() has run on an initialized orchestrator,
\* the orchestrator is never initialized again and every later initialize,
\* setup_materials, build_process, run and save reports failure.
C2_ClosedIsTerminal ==
    closedOnce =>
        /\ ~initialized
        /\ op \in GuardedOps \cup {"initialize"} => ret # "True"

\* C3 (as claimed): initialize() returns True exactly when the adapter's
\* initialize() and load_simulation() both succeed, the orchestrator is then
\* initialized, and after an initialize() that returns False it is not
\* initialized, whatever it was before.
C3_InitializeOutcome ==
    op = "initialize" =>
        /\ ret = "True" <=>
              (Len(calls) = 2 /\ calls[1].ret = "True" /\ calls[2].ret = "True")
        /\ ret = "True" => initialized
        /\ ret = "False" => ~initialized

\* C4 (as claimed): run() returns True only when the engine run succeeded
\* and the raw results were fetched; when the engine run fails or raises or
\* the fetch fails it returns (False, {}); the fetch is issued only after
\* the engine run reported success.
C4_RunResult ==
    (op = "run" /\ pre.initialized) =>
        LET ran == calls[1].ret = "True"
            fetchedOK == Len(calls) = 2 /\ calls[2].engine = "ok"
        IN  /\ ret = "True" => (ran /\ fetchedOK)
            /\ ~(ran /\ fetchedOK) => (ret = "False" /\ results = EmptyDict)
            /\ Len(calls) = 2 => ran

\* C5: close() on an orchestrator that is not initialized raises nothing,
\* issues no adapter call and changes nothing; close() on an initialized one
\* returns normally and leaves initialized false, also when the engine's
\* Close raised.
C5_CloseIdempotent ==
    op = "close" =>
        /\ ret = "None"
        /\ ~initialized
        /\ ~pre.initialized =>
              (calls = <<>> /\ aspen = pre.aspen /\ live = pre.live)

\* close() on an initialized orchestrator whose engine Close raised.
C5_Witness ==
    /\ op = "close"
    /\ pre.initialized
    /\ Len(calls) = 1
    /\ calls[1].engine = "err"
    /\ ~initialized

\* C6 (as claimed): setup_materials() on an initialized orchestrator issues
\* one add_stream per material, FEED_1..FEED_n in list order, stream i with
\* the single composition entry of material i; amount, temperature and
\* pressure are the material's own value when set (0 included) and the
\* defaults 100, 298.15 and 101325 only when unset.
C6_FeedStreams ==
    (op = "setup_materials" /\ pre.initialized) =>
        LET ms == arg.materials
            streams == CallsTo("add_stream")
        IN  /\ Len(streams) = Len(ms)
            /\ \A i \in 1..Len(ms) :
                  /\ streams[i].a1 = "FEED_" \o ToString(i)
                  /\ DOMAIN streams[i].a2[1].composition = {ms[i].name}
                  /\ streams[i].a2[1].composition[ms[i].name]
                        = OrDefault(ms[i].amount, DefaultAmount)
                  /\ streams[i].a2[1].temperature
                        = OrDefault(ms[i].temperature, DefaultTemperature)
                  /\ streams[i].a2[1].pressure
                        = OrDefault(ms[i].pressure, DefaultPressure)

\* C7 (as claimed): when an adapter call of setup_materials() or
\* build_process() returns False, the operation returns False.
C7_FailurePropagates ==
    (op \in {"setup_materials", "build_process"}
        /\ \E i \in 1..Len(calls) : calls[i].ret = "False") => ret = "False"

\* C8 (as claimed): no orchestrator operation lets an exception raised by an
\* adapter call through to its caller.
C8_NoExceptionCrosses == ret # "raised"

\* C9 (as claimed): at most one engine session created through the
\* orchestrator is live at any time.
C9_SingleLiveSession == Cardinality(live) <= 1

\* C10 (as claimed): run() succeeds only when setup_materials() and
\* build_process() have both returned True since the last successful
\* initialize().
C10_LifecycleOrder == (op = "run" /\ ret = "True") => (matOK /\ procOK)

\* C10 (amended): run() succeeds only on an initialized orchestrator whose
\* engine run reported success, and on an initialized orchestrator it
\* succeeds whenever the engine run does, whether or not setup_materials()
\* and build_process() have completed.
C10_RunNeedsOnlyInitialized ==
    op = "run" =>
        /\ ret = "True" =>
              (pre.initialized /\ Len(calls) >= 1 /\ calls[1].fn = "run_simulation"
                 /\ calls[1].ret = "True")
        /\ (pre.initialized /\ calls[1].ret = "True") => ret = "True"

\* run() succeeding right after initialize(): neither setup phase has completed.
C10_Witness == op = "run" /\ ret = "True" /\ ~matOK /\ ~procOK

\* C20: a successful setup_materials() on n materials issues n
\* add_component calls in list order, each with the material's name and
\* formula, then exactly one set_property_method("NRTL") (also when n = 0),
\* then n add_stream calls in list order: no add_stream precedes the
\* property-method call and no add_component follows it.
C20_SetupCallOrder ==
    (op = "setup_materials" /\ pre.initialized /\ ret = "True") =>
        LET ms == arg.materials
            n == Len(ms)
        IN  /\ Len(calls) = 2 * n + 1
            /\ \A i \in 1..n :
                  /\ calls[i].fn = "add_component"
                  /\ calls[i].a1 = ms[i].name
                  /\ calls[i].a2 = ms[i].chemical_formula
            /\ calls[n + 1].fn = "set_property_method"
            /\ calls[n + 1].a1 = "NRTL"
            /\ \A i \in 1..n :
                  /\ calls[n + 1 + i].fn = "add_stream"
                  /\ calls[n + 1 + i].a1 = "FEED_" \o ToString(i)
                  /\ DOMAIN calls[n + 1 + i].a2[1].composition = {ms[i].name}

\* A successful setup of two different materials.
C20_Witness ==
    /\ op = "setup_materials"
    /\ pre.initialized
    /\ ret = "True"
    /\ Len(arg.materials) = 2
    /\ arg.materials[1].name # arg.materials[2].name
    /\ Len(calls) = 5

\* x lies within the bounds of a {min, max} mapping, a bound that is absent
\* or None leaving its side open.
InRange(d, x) ==
    /\ Get(d, "min") # None => Le(Get(d, "min")[1], x)
    /\ Get(d, "max") # None => Le(x, Get(d, "max")[1])

Bounded(d) == Get(d, "min") # None \/ Get(d, "max") # None

\* The specification field behind the key of a criterion.
SpecField(c) ==
    CASE c = "purity" -> "purity"
      [] c = "yield" -> "yield_requirement"
      [] c = "state" -> "state"
      [] c = "temperature" -> "temperature_range"
      [] c = "pressure" -> "pressure_range"
      [] OTHER -> c

\* C12 (as claimed): a temperature, pressure or custom {min, max} criterion
\* with only min is "value >= min", with only max "value <= max", with both
\* an inclusive range; a custom property given as a plain scalar is an
\* equality check.
C12_OneSidedRanges ==
    (op = "is_satisfied_by" /\ ~ret.raised) =>
        LET spec == arg.spec
            pd == arg.product_data
        IN  /\ \A f \in {"temperature", "pressure"} :
                  (spec[SpecField(f)] # None /\ Bounded(spec[SpecField(f)][1])
                      /\ f \in DOMAIN pd /\ pd[f] # None) =>
                     /\ f \in DOMAIN ret.results
                     /\ ret.results[f] = InRange(spec[SpecField(f)][1], pd[f][1])
            /\ \A c \in DOMAIN spec.properties :
                  (c \in DOMAIN pd /\ pd[c] # None) =>
                     IF spec.properties[c].isdict
                     THEN Bounded(spec.properties[c].d) =>
                             /\ c \in DOMAIN ret.results
                             /\ ret.results[c] = InRange(spec.properties[c].d, pd[c][1])
                     ELSE /\ c \in DOMAIN ret.results
                          /\ ret.results[c] = (pd[c] = spec.properties[c].v)

\* C14: a criterion appears in the output of is_satisfied_by only if the
\* specification populates it and product_data contains its field; a
\* criterion whose field is missing from product_data is absent from the
\* output, never present with value false.
C14_UnknownNotFailing ==
    (op = "is_satisfied_by" /\ ~ret.raised) =>
        LET spec == arg.spec
            pd == arg.product_data
        IN  /\ \A c \in DOMAIN ret.results :
                  /\ SpecField(c) \in Populated(spec)
                  /\ c \in DOMAIN pd
            /\ \A c \in Criteria(spec) : c \notin DOMAIN pd => c \notin DOMAIN ret.results

\* A specification with a temperature range and a purity, checked against
\* a product without temperature: only the purity is judged.
C14_Witness ==
    /\ op = "is_satisfied_by"
    /\ ~ret.raised
    /\ arg.spec.temperature_range # None
    /\ Bounded(arg.spec.temperature_range[1])
    /\ arg.spec.purity # None
    /\ "temperature" \notin DOMAIN arg.product_data
    /\ DOMAIN ret.results = {"purity"}

\* C18: all_specifications_met is true exactly when every criterion
\* present in the output of is_satisfied_by is true; for a specification
\* that populates no criterion it is true for every product_data.
C18_AllSpecificationsMet ==
    op = "all_specifications_met" =>
        LET res == is_satisfied_by(arg.spec, arg.product_data)
        IN  /\ ~res.raised =>
                  /\ ~ret.raised
                  /\ ret.met = "True" <=> (\A c \in DOMAIN res.results : res.results[c])
                  /\ ret.met \in {"True", "False"}
            /\ Populated(arg.spec) = {} => (~ret.raised /\ ret.met = "True")

\* A product that passes one criterion and fails another.
C18_Witness ==
    /\ op = "all_specifications_met"
    /\ ~ret.raised
    /\ ret.met = "False"
    /\ LET res == is_satisfied_by(arg.spec, arg.product_data)
       IN  \E c, k \in DOMAIN res.results : res.results[c] /\ ~res.results[k]

\* The composition of a requested stream, empty when the record has none.
CompositionOf(record) ==
    IF "composition" \in DOMAIN record THEN record["composition"] ELSE <<>>

\* C11 (as claimed): for every requested stream present in results whose
\* composition has zero total flow (a non-empty composition summing to 0,
\* as well as an empty or absent one), the properties entry of
\* extract_product_properties has none of the keys composition,
\* main_component and purity.
C11_ZeroFlowNoComposition ==
    (op = "extract_product_properties" /\ ~ret.raised) =>
        \A i \in 1..Len(arg.product_streams) :
            LET id == arg.product_streams[i]
            IN  (Has(arg.results, id)
                    /\ SumFlows(CompositionOf(Lookup(arg.results, id).d)) = 0) =>
                  /\ Has(ret.product_properties, id)
                  /\ DOMAIN Lookup(ret.product_properties, id)
                        \cap {"composition", "main_component", "purity"} = {}

\* C19: for a requested stream whose composition has positive total flow,
\* the properties entry maps each component to flow / total, main_component
\* is a component of maximal mass fraction, the first in the composition's
\* order among equal maxima, and purity is that fraction.
C19_MainComponent ==
    (op = "extract_product_properties" /\ ~ret.raised) =>
        \A i \in 1..Len(arg.product_streams) :
            LET id == arg.product_streams[i]
                composition == CompositionOf(Lookup(arg.results, id).d)
                total == SumFlows(composition)
                props == Lookup(ret.product_properties, id)
                fraction(k) == Q(composition[k][2], total)
            IN  (Has(arg.results, id) /\ total > 0) =>
                  /\ Has(ret.product_properties, id)
                  /\ {"composition", "main_component", "purity"} \subseteq DOMAIN props
                  /\ Len(props["composition"]) = Len(composition)
                  /\ \A k \in 1..Len(composition) :
                        props["composition"][k] = <<composition[k][1], fraction(k)>>
                  /\ \E m \in 1..Len(composition) :
                        /\ props["main_component"] = Some(composition[m][1])
                        /\ props["purity"] = Some(fraction(m))
                        /\ \A k \in 1..Len(composition) : Le(fraction(k), fraction(m))
                        /\ \A k \in 1..(m - 1) : Lt(fraction(k), fraction(m))

\* The stream {A: 80, B: 20}: main_component A with purity 0.8.
C19_Witness ==
    /\ op = "extract_product_properties"
    /\ ~ret.raised
    /\ \E i \in 1..Len(ret.product_properties) :
          /\ CompositionOf(Lookup(arg.results, ret.product_properties[i][1]).d)
                = <<<<"A", 80>>, <<"B", 20>>>>
          /\ ret.product_properties[i][2]["main_component"] = Some("A")
          /\ ret.product_properties[i][2]["purity"] = Some(<<4, 5>>)

\* The last stream of product_properties whose main_component is name.
LastStreamOf(product_properties, name) ==
    CHOOSE i \in 1..Len(product_properties) :
        /\ Get(product_properties[i][2], "main_component") = Some(name)
        /\ \A j \in (i + 1)..Len(product_properties) :
              Get(product_properties[j][2], "main_component") # Some(name)

\* The last specification of a list that carries name.
LastSpecOf(specifications, name) ==
    CHOOSE i \in 1..Len(specifications) :
        /\ specifications[i].name = name
        /\ \A j \in (i + 1)..Len(specifications) : specifications[j].name # name

\* C13 (as claimed): for every results mapping whose stream records may
\* lack any of temperature, pressure, vapor_fraction or composition, and
\* every specification list, extract_product_properties followed by
\* check_specifications completes without exception, and each criterion
\* whose product value is missing is omitted from the verdict map.
C13_NeverRaises ==
    op = "check_specifications" =>
        /\ ~ret.raised
        /\ \A i \in 1..Len(ret.specification_results) :
              LET name == ret.specification_results[i][1]
                  record == Lookup(arg.results,
                                   arg.product_properties[
                                       LastStreamOf(arg.product_properties, name)][1]).d
              IN  \A f \in {"temperature", "pressure"} :
                     f \notin DOMAIN record =>
                        f \notin DOMAIN ret.specification_results[i][2]

\* C15: the result of check_specifications has an entry for name N exactly
\* when some product entry has main_component N and a specification named N
\* exists; the entry is the is_satisfied_by verdict of the last such stream
\* in iteration order against the last specification of the list that
\* carries the name.
C15_KeyedBySpecName ==
    (op = "check_specifications" /\ ~ret.raised) =>
        LET pp == arg.product_properties
            specs == arg.specifications.specifications
            out == ret.specification_results
        IN  /\ \A i, j \in 1..Len(out) : out[i][1] = out[j][1] => i = j
            /\ \A name \in Components :
                  LET produced == \E i \in 1..Len(pp) :
                                     Get(pp[i][2], "main_component") = Some(name)
                      specified == \E i \in 1..Len(specs) : specs[i].name = name
                  IN  /\ Has(out, name) <=> (produced /\ specified)
                      /\ (produced /\ specified) =>
                            LET verdict == is_satisfied_by(
                                               specs[LastSpecOf(specs, name)],
                                               pp[LastStreamOf(pp, name)][2])
                            IN  /\ ~verdict.raised
                                /\ Lookup(out, name) = verdict.results

\* Two streams of product A and two specifications named A: the entry is the
\* verdict of the second stream under the second specification, which is
\* neither the first stream's verdict nor the first specification's.
C15_Witness ==
    /\ op = "check_specifications"
    /\ ~ret.raised
    /\ Len(arg.product_properties) = 2
    /\ Len(arg.specifications.specifications) = 2
    /\ LET pp == arg.product_properties
           specs == arg.specifications.specifications
       IN  /\ \A i \in 1..2 : Get(pp[i][2], "main_component") = Some("A")
           /\ \A i \in 1..2 : specs[i].name = "A"
           /\ Len(ret.specification_results) = 1
           /\ ~is_satisfied_by(specs[2], pp[1][2]).raised
           /\ ~is_satisfied_by(specs[1], pp[2][2]).raised
           /\ ret.specification_results[1][2]
                 = is_satisfied_by(specs[2], pp[2][2]).results
           /\ ret.specification_results[1][2]
                 # is_satisfied_by(specs[2], pp[1][2]).results
           /\ ret.specification_results[1][2]
                 # is_satisfied_by(specs[1], pp[2][2]).results

\* The flow of component comp in a composition, 0 when it has none.
FlowOf(composition, comp) ==
    IF Has(composition, comp) THEN Lookup(composition, comp) ELSE 0

\* The total flow of comp over the entries of simulation_results that are
\* mappings with a composition and whose id is in ids.
RECURSIVE TotalFlow(_, _, _)
TotalFlow(simulation_results, comp, ids) ==
    IF simulation_results = <<>> THEN 0
    ELSE LET e == Head(simulation_results)
         IN  (IF e[1] \in ids /\ e[2].isdict /\ "composition" \in DOMAIN e[2].d
              THEN FlowOf(e[2].d["composition"], comp) ELSE 0)
             + TotalFlow(Tail(simulation_results), comp, ids)

\* C16: check_mass_balance counts only entries that are mappings with a
\* composition key; streams whose id starts with FEED are inputs, every
\* other such stream an output.  The report has an entry for a component
\* exactly when its summed input total is nonzero, and the entry is
\* (output total - input total) / input total; a component with zero input
\* total has no entry.
C16_MassBalance ==
    op = "check_mass_balance" =>
        LET out == ret.mass_balance_errors
        IN  /\ ~ret.raised
            /\ \A i, j \in 1..Len(out) : out[i][1] = out[j][1] => i = j
            /\ \A comp \in Components :
                  LET input == TotalFlow(arg.results, comp, {"FEED_1", "FEED_2"})
                      output == TotalFlow(arg.results, comp, {"XFEED", "X"})
                  IN  /\ Has(out, comp) <=> input # 0
                      /\ input # 0 => Lookup(out, comp) = Q(output - input, input)

\* FEED_1 {A: 100} and X {A: 90}: the report is {A: -0.1}.
C16_Witness ==
    /\ op = "check_mass_balance"
    /\ arg.results = <<<<"FEED_1", Dict("composition" :> <<<<"A", 100>>>>)>>,
                       <<"X", Dict("composition" :> <<<<"A", 90>>>>)>>>>
    /\ ret.mass_balance_errors = <<<<"A", <<-1, 10>>>>>>

\* A block-shaped entry whose status is present and is not "ok" in any
\* casing, the empty string included.
Flagged(e) ==
    /\ e[2].isdict
    /\ "type" \in DOMAIN e[2].d
    /\ "status" \in DOMAIN e[2].d
    /\ e[2].d["status"] \notin {"ok", "OK", "Ok", "oK"}

\* C17 (as claimed): analyze_simulation_errors returns exactly one message
\* per block-shaped entry whose status is present and not case-insensitively
\* "ok" (the empty string included), naming the block id, in the iteration
\* order of results; other entries produce no message.
C17_OneMessagePerBadBlock ==
    op = "analyze_simulation_errors" =>
        LET flagged == SelectSeq(arg.results, Flagged)
        IN  /\ ~ret.raised
            /\ Len(ret.errors) = Len(flagged)
            /\ \A i \in 1..Len(flagged) :
                  /\ ret.errors[i].block_id = flagged[i][1]
                  /\ ret.errors[i].status = flagged[i][2].d["status"]

\* The vapor fraction the classification of a stream record goes by.
VaporFractionOf(record) ==
    IF "vapor_fraction" \in DOMAIN record THEN record["vapor_fraction"][1] ELSE <<0, 1>>

\* C21: extract_product_properties gives every extracted stream exactly one
\* of the labels vapor, liquid and mixed: vapor when vapor_fraction > 0.99,
\* liquid when vapor_fraction < 0.01, mixed otherwise, the two thresholds
\* themselves being mixed.
C21_StateClassification ==
    (op = "extract_product_properties" /\ ~ret.raised) =>
        \A i \in 1..Len(ret.product_properties) :
            LET vf == VaporFractionOf(
                          Lookup(arg.results, ret.product_properties[i][1]).d)
                state == ret.product_properties[i][2]["state"]
            IN  /\ state \in {"vapor", "liquid", "mixed"}
                /\ state = "vapor" <=> 99 * vf[2] < 100 * vf[1]
                /\ state = "liquid" <=> 100 * vf[1] < vf[2]
                /\ state = "mixed" <=>
                      (vf[2] <= 100 * vf[1] /\ 100 * vf[1] <= 99 * vf[2])

\* A stream with vapor_fraction 0.99, classified as mixed.
C21_Witness ==
    /\ op = "extract_product_properties"
    /\ ~ret.raised
    /\ \E i \in 1..Len(ret.product_properties) :
          /\ Get(Lookup(arg.results, ret.product_properties[i][1]).d,
                 "vapor_fraction") = Some(<<99, 100>>)
          /\ ret.product_properties[i][2]["state"] = "mixed"

\* C22 (as claimed): after close() returns, no engine session created
\* through the orchestrator remains live, whatever operations came before.
C22_NoSessionLeak == op = "close" => live = {}

\* C23 (as claimed): every value of a specification's state field can be
\* met through the pipeline: for each of gas, liquid and solid some stream
\* record's extracted properties make the state criterion true, and a
\* stream classified as vapor (vapor_fraction > 0.99) satisfies a
\* specification whose state is gas.
C23_StateSatisfiable ==
    (op = "is_satisfied_by" /\ "record" \in DOMAIN arg /\ ~ret.raised) =>
        /\ \E record \in StateRecords :
              is_satisfied_by(arg.spec, properties_of(record)).results["state"]
        /\ LET vf == VaporFractionOf(arg.record)
           IN  (99 * vf[2] < 100 * vf[1] /\ arg.spec.state = Some("gas")) =>
                  /\ "state" \in DOMAIN ret.results
                  /\ ret.results["state"]

====
